---- MODULE Spec2Model ----
(***************************************************************************)
(* Model of analyse_RU.py: per-read best-alignment selection, channel      *)
(* classification, per-barcode / per-contig aggregation and the bootstrap  *)
(* enrichment estimator.                                                    *)
(*                                                                          *)
(* The program is one sequential run of main().  Its loops are modelled    *)
(* one body execution per step:                                             *)
(*   ReadFile           one pass of "for f in get_fq(...)" up to the reads  *)
(*   ProcessRead        one pass of "for entry in input_sequences"          *)
(*   EndOfInput         the file loop is exhausted                          *)
(*   BootstrapBarcode   one pass of "for barcode, channel_dict in ..."      *)
(*   BootstrapIteration one pass of "for i in range(bootstrap_sample)"      *)
(*   WriteBootstrap     the bootstrap file is written                       *)
(*   SummaryTarget      one pass of the first "for barcode in barcode_list" *)
(*   SummaryNonTarget   one pass of the second "for barcode in ..."         *)
(*   CloseSummary       the summary file is closed                          *)
(* Spec is a whole run: files, reads, then the bootstrap.  SpecSelect is    *)
(* the run up to its first read, over every hit sequence the aligner may   *)
(* return for it.                                                           *)
(* Floats are modelled as exact non-negative fractions <<n, d>> in lowest   *)
(* terms.  The run keeps the default of option -q (no fasta output), so     *)
(* read_seqs is never filled and is not part of the state.                  *)
(***************************************************************************)
EXTENDS Integers, Sequences, FiniteSets

VARIABLES
    pc,                       \* position of main(): "ingest", "bootstrap", "summary", "done", "failed"
    error,                    \* the exception that ended the run, or "none"
    min_channel, max_channel, \* option -c
    matching_prop,            \* option -p, a fraction
    remove_multi,             \* option -r
    mm_target,                \* option -t: None or <<set of contig names>>
    bootstrap_sample,         \* option -bs
    barcode,                  \* the loop variable "barcode" (file loop, then bootstrap loop)
    barcode_list,             \* barcodes in order of first appearance
    results_dict,             \* barcode -> counters
    read_lens,                \* barcode -> [adaptive, control] lists of (ref_align, match_len, total_length)
    ref_order,                \* barcode -> the keys of its ref_dict in insertion order
    entry,                    \* the read last taken from the input
    cls,                      \* the locals of the read loop after the last read
    bootstrapped_enrichment,  \* barcode -> contig -> sequence of enrichment values
    i,                        \* bootstrap iterations completed for the current barcode
    adaptive_sample, control_sample,         \* last drawn samples
    adaptive_num_bases, control_num_bases,   \* per-contig sums of the last iteration
    adaptive_total_bases, control_total_bases,
    enrichment_dict,          \* barcode -> contig -> the two terms of the point estimate
    o_sum                     \* rows written to the summary file

vars == <<pc, error, min_channel, max_channel, matching_prop, remove_multi,
          mm_target, bootstrap_sample, barcode, barcode_list, results_dict,
          read_lens, ref_order, entry, cls, bootstrapped_enrichment, i,
          adaptive_sample, control_sample, adaptive_num_bases,
          control_num_bases, adaptive_total_bases, control_total_bases,
          enrichment_dict, o_sum>>

sumVars == <<enrichment_dict, o_sum>>

optionVars == <<min_channel, max_channel, matching_prop, remove_multi,
                mm_target, bootstrap_sample>>

bootVars == <<bootstrapped_enrichment, i, adaptive_sample, control_sample,
              adaptive_num_bases, control_num_bases, adaptive_total_bases,
              control_total_bases>>

(***************************************************************************)
(* Bounds of the model.                                                     *)
(***************************************************************************)
MaxReads == 2      \* reads ingested in a whole run
MaxIter == 2       \* largest value of option -bs
MaxHits == 2       \* hits per read when a single read is classified

(***************************************************************************)
(* Fractions.                                                               *)
(***************************************************************************)
RECURSIVE Gcd(_, _)
Gcd(a, b) == IF b = 0 THEN a ELSE Gcd(b, a % b)

\* n / d for n >= 0, d > 0, in lowest terms
Frac(n, d) == LET g == Gcd(n, d) IN <<n \div g, d \div g>>

FracLess(p, q) == p[1] * q[2] < q[1] * p[2]

\* p / q for q # 0
FracDiv(p, q) == Frac(p[1] * q[2], p[2] * q[1])

Zero == Frac(0, 1)

Abs(x) == IF x < 0 THEN -x ELSE x

(***************************************************************************)
(* Dictionaries are functions; a missing key is a key outside DOMAIN.       *)
(***************************************************************************)
EmptyDict == [k \in {} |-> 0]

Put(d, k, v) == [x \in DOMAIN d \cup {k} |-> IF x = k THEN v ELSE d[x]]

None == <<>>

(***************************************************************************)
(* Inputs.                                                                  *)
(***************************************************************************)
Contigs == {"X", "Y"}

\* what mapper.map() can return for a read: contig, reference interval, matches
Intervals == {<<0, 5>>, <<3, 3>>}

Hits == {[ctg |-> c, r_st |-> iv[1], r_en |-> iv[2], mlen |-> m] :
            c \in Contigs, iv \in Intervals, m \in {2, 4}}

RECURSIVE SeqsUpTo(_, _)
SeqsUpTo(S, n) ==
    IF n = 0 THEN {<<>>}
    ELSE LET shorter == SeqsUpTo(S, n - 1)
         IN  shorter \cup {Append(s, x) : s \in {t \in shorter : Len(t) = n - 1}, x \in S}

Channels == {0, 1, 257, 513}

\* a read: its channel, len(seq) and the hits the aligner returns for it
Entries(channels, hitSeqs) ==
    [channel : channels, seq_len : {6}, hits : hitSeqs]

\* reads of empty sequence, which have no hits
EmptyEntries == [channel : Channels, seq_len : {0}, hits : {<<>>}]

Hit(c, st, en, m) == [ctg |-> c, r_st |-> st, r_en |-> en, mlen |-> m]

\* the reads of whole runs: every channel;
\* no hit, a hit that reaches the cutoff, a hit of empty reference interval
RunEntries ==
    Entries(Channels,
            {<<>>, <<Hit("X", 0, 5, 4)>>, <<Hit("X", 3, 3, 4)>>})

\* the reads classified one at a time: every hit sequence up to MaxHits
SelectEntries == Entries(Channels, SeqsUpTo(Hits, MaxHits)) \cup EmptyEntries

NoEntry == [channel |-> 1, seq_len |-> 0, hits |-> <<>>]

\* base[2] of the file name
FileTokens == {"barcode01", "pass"}
BarcodeTokens == {"barcode01"}

\* line 190-193
BarcodeOf(token) == IF token \in BarcodeTokens THEN token ELSE "NA"

\* lines 196-206
NewCounters ==
    [target_channel_bases |-> 0, non_target_channel_bases |-> 0,
     target_channel_reads |-> 0, non_target_channel_reads |-> 0,
     target_channel_bases_mapped |-> 0, non_target_channel_bases_mapped |-> 0,
     target_channel_reads_mapped |-> 0, non_target_channel_reads_mapped |-> 0,
     total_bases |-> 0, total_reads |-> 0, ref_dict |-> EmptyDict]

\* lines 292-295
NewBucket ==
    [target_channel_bases |-> 0, non_target_channel_bases |-> 0,
     target_channel_reads |-> 0, non_target_channel_reads |-> 0]

NewLens == [adaptive |-> <<>>, control |-> <<>>]

(***************************************************************************)
(* Best-alignment selection, lines 234-272.                                 *)
(***************************************************************************)
NoCls == [ref_align |-> "unaligned", perc_id |-> Zero, match_len |-> 0,
          align_count |-> 0, raised |-> FALSE, target |-> FALSE,
          total_length |-> 0]

\* align_count counts only the hits that pass the -t filter
MapHitCountExamined(st, r, targets) ==
    LET len_ref_map == Abs(r.r_en - r.r_st)
        examined == targets = None \/ r.ctg \in targets[1]
        counted == IF examined THEN [st EXCEPT !.align_count = @ + 1] ELSE st
    IN  IF st.raised THEN st
        ELSE IF examined /\ st.match_len < r.mlen
             THEN IF len_ref_map = 0
                  THEN [counted EXCEPT !.match_len = r.mlen, !.ref_align = r.ctg,
                                       !.raised = TRUE]
                  ELSE [counted EXCEPT !.match_len = r.mlen, !.ref_align = r.ctg,
                                       !.perc_id = Frac(r.mlen, len_ref_map)]
             ELSE counted

\* a hit that ties with the best replaces it (<= for <)
MapHitLastWins(st, r, targets) ==
    LET len_ref_map == Abs(r.r_en - r.r_st)
        counted == [st EXCEPT !.align_count = @ + 1]
        examined == targets = None \/ r.ctg \in targets[1]
    IN  IF st.raised THEN st
        ELSE IF examined /\ st.match_len <= r.mlen
             THEN IF len_ref_map = 0
                  THEN [counted EXCEPT !.match_len = r.mlen, !.ref_align = r.ctg,
                                       !.raised = TRUE]
                  ELSE [counted EXCEPT !.match_len = r.mlen, !.ref_align = r.ctg,
                                       !.perc_id = Frac(r.mlen, len_ref_map)]
             ELSE counted

\* one pass of "for r in mapper.map(seq)"; raised records the
\* ZeroDivisionError of match_len / len_ref_map
MapHit(st, r, targets) ==
    LET len_ref_map == Abs(r.r_en - r.r_st)
        counted == [st EXCEPT !.align_count = @ + 1]
        examined == targets = None \/ r.ctg \in targets[1]
    IN  IF st.raised THEN st
        ELSE IF examined /\ st.match_len < r.mlen
             THEN IF len_ref_map = 0
                  THEN [counted EXCEPT !.match_len = r.mlen, !.ref_align = r.ctg,
                                       !.raised = TRUE]
                  ELSE [counted EXCEPT !.match_len = r.mlen, !.ref_align = r.ctg,
                                       !.perc_id = Frac(r.mlen, len_ref_map)]
             ELSE counted

RECURSIVE MapHits(_, _, _)
MapHits(st, hits, targets) ==
    IF hits = <<>> THEN st
    ELSE MapHits(MapHit(st, Head(hits), targets), Tail(hits), targets)

\* match_len is replaced by the read length before the cutoff and the
\* multi-mapping rule are applied (lines 270-272 moved above line 262)
ClassifyEarlyLength(e, lo, hi, prop, multi, targets, prior) ==
    LET st == MapHits(NoCls, e.hits, targets)
        cut == IF FracLess(st.perc_id, prop) THEN "unaligned" ELSE st.ref_align
        ref == IF multi /\ st.align_count > 1 THEN "unaligned" ELSE cut
        total_length == e.seq_len
    IN  [st EXCEPT !.target = (e.channel >= lo /\ e.channel <= hi),
                   !.total_length = IF st.raised THEN prior.total_length
                                    ELSE total_length,
                   !.ref_align = IF st.raised THEN @ ELSE ref,
                   !.match_len = IF st.raised THEN @
                                 ELSE IF st.ref_align = "unaligned"
                                      THEN total_length ELSE @]

\* the locals after lines 227-272 for one read; prior holds the locals the
\* read before left (NoCls before the first read).  When the hit loop
\* raises, line 270 is not reached and total_length keeps what it was: the
\* length of the read before, or nothing (the 0 of NoCls) on a first read
Classify(e, lo, hi, prop, multi, targets, prior) ==
    LET st == MapHits(NoCls, e.hits, targets)
        cut == IF FracLess(st.perc_id, prop) THEN "unaligned" ELSE st.ref_align
        ref == IF multi /\ st.align_count > 1 THEN "unaligned" ELSE cut
        total_length == e.seq_len
    IN  [st EXCEPT !.target = (e.channel >= lo /\ e.channel <= hi),
                   !.total_length = IF st.raised THEN prior.total_length
                                    ELSE total_length,
                   !.ref_align = IF st.raised THEN @ ELSE ref,
                   !.match_len = IF st.raised THEN @
                                 ELSE IF ref = "unaligned" THEN total_length ELSE @]

\* line 223
ChannelAsserted(channel) == channel >= 0 /\ channel <= 512

(***************************************************************************)
(* Aggregation, lines 274-315: c is a classified read.                      *)
(***************************************************************************)
\* lines 275-278
Retain(lens, c) ==
    LET tup == <<c.ref_align, c.match_len, c.total_length>>
    IN  IF c.target THEN [lens EXCEPT !.adaptive = Append(@, tup)]
        ELSE [lens EXCEPT !.control = Append(@, tup)]

\* the bucket is re-created for every read (the membership test is lost)
EnsureBucketAlways(ref_dict, ref_align) == Put(ref_dict, ref_align, NewBucket)

\* lines 291-295: a new key goes to the end of the dictionary's order
Inserted(order, ref_dict, ref_align) ==
    IF ref_align \notin DOMAIN ref_dict THEN Append(order, ref_align)
    ELSE order

\* lines 291-295
EnsureBucket(ref_dict, ref_align) ==
    IF ref_align \notin DOMAIN ref_dict THEN Put(ref_dict, ref_align, NewBucket)
    ELSE ref_dict

\* the barcode total counts the matched bases instead of the read length
UpdateMatchedTotal(counters, c) ==
    LET buckets == EnsureBucket(counters.ref_dict, c.ref_align)
        mapped == c.ref_align # "unaligned"
        side ==
            IF c.target
            THEN [counters EXCEPT
                    !.target_channel_bases = @ + c.total_length,
                    !.target_channel_reads = @ + 1,
                    !.ref_dict = [buckets EXCEPT
                        ![c.ref_align].target_channel_bases = @ + c.match_len,
                        ![c.ref_align].target_channel_reads = @ + 1],
                    !.target_channel_bases_mapped =
                        IF mapped THEN @ + c.match_len ELSE @,
                    !.target_channel_reads_mapped =
                        IF mapped THEN @ + 1 ELSE @]
            ELSE [counters EXCEPT
                    !.non_target_channel_bases = @ + c.total_length,
                    !.non_target_channel_reads = @ + 1,
                    !.ref_dict = [buckets EXCEPT
                        ![c.ref_align].non_target_channel_bases = @ + c.match_len,
                        ![c.ref_align].non_target_channel_reads = @ + 1],
                    !.non_target_channel_bases_mapped =
                        IF mapped THEN @ + c.match_len ELSE @,
                    !.non_target_channel_reads_mapped =
                        IF mapped THEN @ + 1 ELSE @]
    IN  [side EXCEPT !.total_bases = @ + c.match_len,
                     !.total_reads = @ + 1]

\* lines 297-315
Update(counters, c) ==
    LET buckets == EnsureBucket(counters.ref_dict, c.ref_align)
        mapped == c.ref_align # "unaligned"
        side ==
            IF c.target
            THEN [counters EXCEPT
                    !.target_channel_bases = @ + c.total_length,
                    !.target_channel_reads = @ + 1,
                    !.ref_dict = [buckets EXCEPT
                        ![c.ref_align].target_channel_bases = @ + c.match_len,
                        ![c.ref_align].target_channel_reads = @ + 1],
                    !.target_channel_bases_mapped =
                        IF mapped THEN @ + c.match_len ELSE @,
                    !.target_channel_reads_mapped =
                        IF mapped THEN @ + 1 ELSE @]
            ELSE [counters EXCEPT
                    !.non_target_channel_bases = @ + c.total_length,
                    !.non_target_channel_reads = @ + 1,
                    !.ref_dict = [buckets EXCEPT
                        ![c.ref_align].non_target_channel_bases = @ + c.match_len,
                        ![c.ref_align].non_target_channel_reads = @ + 1],
                    !.non_target_channel_bases_mapped =
                        IF mapped THEN @ + c.match_len ELSE @,
                    !.non_target_channel_reads_mapped =
                        IF mapped THEN @ + 1 ELSE @]
    IN  [side EXCEPT !.total_bases = @ + c.total_length,
                     !.total_reads = @ + 1]

RECURSIVE SumOver(_, _)
SumOver(f, S) ==
    IF S = {} THEN 0
    ELSE LET x == CHOOSE y \in S : TRUE IN f[x] + SumOver(f, S \ {x})

\* reads ingested so far in the whole run
ReadsIngested ==
    SumOver([b \in DOMAIN results_dict |-> results_dict[b].total_reads],
            DOMAIN results_dict)

(***************************************************************************)
(* Options, lines 144-163.                                                  *)
(***************************************************************************)
Options(props, multis, targets, samples) ==
    [c : {<<1, 256>>}, p : props, r : multis, t : targets, bs : samples]

\* options of whole runs
RunOptions ==
    Options({Frac(4, 5)}, {FALSE}, {None}, 0..MaxIter)

\* options under which a single read is classified
SelectOptions ==
    Options({Frac(1, 4), Frac(4, 5)}, BOOLEAN, {None, <<{"X"}>>}, {0})

\* lines 144-174
InitWith(opts) ==
    /\ \E o \in opts :
          /\ min_channel = o.c[1]
          /\ max_channel = o.c[2]
          /\ matching_prop = o.p
          /\ remove_multi = o.r
          /\ mm_target = o.t
          /\ bootstrap_sample = o.bs
    /\ pc = "ingest"
    /\ error = "none"
    /\ barcode = "none"
    /\ barcode_list = <<>>
    /\ results_dict = EmptyDict
    /\ read_lens = EmptyDict
    /\ ref_order = EmptyDict
    /\ entry = NoEntry
    /\ cls = NoCls
    /\ bootstrapped_enrichment = EmptyDict
    /\ i = 0
    /\ adaptive_sample = <<>>
    /\ control_sample = <<>>
    /\ adaptive_num_bases = EmptyDict
    /\ control_num_bases = EmptyDict
    /\ adaptive_total_bases = 0
    /\ control_total_bases = 0
    /\ enrichment_dict = EmptyDict
    /\ o_sum = <<>>

Init == InitWith(RunOptions)

InitSelect == InitWith(SelectOptions)

(***************************************************************************)
(* The file loop, lines 176-315.                                            *)
(***************************************************************************)
\* lines 176-213: the next file is opened and its barcode registered
ReadFile ==
    /\ pc = "ingest"
    /\ \E token \in FileTokens :
          LET b == BarcodeOf(token) IN
          /\ barcode' = b
          /\ IF b \notin DOMAIN results_dict
             THEN /\ results_dict' = Put(results_dict, b, NewCounters)
                  /\ read_lens' = Put(read_lens, b, NewLens)
                  /\ ref_order' = Put(ref_order, b, <<>>)
                  /\ barcode_list' = Append(barcode_list, b)
             ELSE UNCHANGED <<results_dict, read_lens, ref_order,
                              barcode_list>>
    /\ UNCHANGED <<pc, error, optionVars, entry, cls, bootVars, sumVars>>

\* lines 217-315: one read of the current file
ProcessRead(e) ==
    /\ pc = "ingest"
    /\ barcode \in DOMAIN results_dict
    /\ entry' = e
    /\ IF ~ChannelAsserted(e.channel)
       THEN /\ pc' = "failed"
            /\ error' = "AssertionError"
            /\ UNCHANGED <<cls, results_dict, read_lens, ref_order>>
       ELSE LET c == Classify(e, min_channel, max_channel, matching_prop,
                              remove_multi, mm_target, cls)
            IN  /\ cls' = c
                /\ IF c.raised
                   THEN /\ pc' = "failed"
                        /\ error' = "ZeroDivisionError"
                        /\ UNCHANGED <<results_dict, read_lens, ref_order>>
                   ELSE /\ read_lens' =
                             [read_lens EXCEPT ![barcode] = Retain(@, c)]
                        /\ ref_order' =
                             [ref_order EXCEPT ![barcode] =
                                 Inserted(@, results_dict[barcode].ref_dict,
                                          c.ref_align)]
                        /\ results_dict' =
                             [results_dict EXCEPT ![barcode] = Update(@, c)]
                        /\ UNCHANGED <<pc, error>>
    /\ UNCHANGED <<optionVars, barcode, barcode_list, bootVars, sumVars>>

\* a read of a whole run
IngestRead ==
    /\ ReadsIngested < MaxReads
    /\ \E e \in RunEntries : ProcessRead(e)

\* the single read of a classification run
SelectRead ==
    /\ ReadsIngested = 0
    /\ \E e \in SelectEntries : ProcessRead(e)

\* line 317: no file is left
EndOfInput ==
    /\ pc = "ingest"
    /\ pc' = "bootstrap"
    /\ UNCHANGED <<error, optionVars, barcode, barcode_list, results_dict,
                   read_lens, ref_order, entry, cls, bootVars, sumVars>>

(***************************************************************************)
(* The bootstrap, lines 318-369.                                            *)
(***************************************************************************)
\* random.choices(population, k=len(population)): every sequence of
\* len(population) elements of the population can be drawn
Choices(population) ==
    LET n == Len(population)
    IN  {[j \in 1..n |-> population[idx[j]]] : idx \in [1..n -> 1..n]}

\* the sums of one iteration
NoSums == [adaptive_num_bases |-> EmptyDict, control_num_bases |-> EmptyDict,
           adaptive_total_bases |-> 0, control_total_bases |-> 0]

\* lines 338-340 and 346-348
EnsureAlign(st, align) ==
    IF align \notin DOMAIN st.adaptive_num_bases
    THEN [st EXCEPT !.adaptive_num_bases = Put(@, align, 0),
                    !.control_num_bases = Put(@, align, 0)]
    ELSE st

\* the depth of the target sample is summed from the matched bases
RECURSIVE AddAdaptiveMatched(_, _)
AddAdaptiveMatched(st, sample) ==
    IF sample = <<>> THEN st
    ELSE LET read == Head(sample)
             ensured == EnsureAlign(st, read[1])
         IN  AddAdaptiveMatched([ensured EXCEPT
                                    !.adaptive_num_bases[read[1]] = @ + read[2],
                                    !.adaptive_total_bases = @ + read[2]],
                                Tail(sample))

\* lines 336-342
RECURSIVE AddAdaptive(_, _)
AddAdaptive(st, sample) ==
    IF sample = <<>> THEN st
    ELSE LET read == Head(sample)
             ensured == EnsureAlign(st, read[1])
         IN  AddAdaptive([ensured EXCEPT
                             !.adaptive_num_bases[read[1]] = @ + read[2],
                             !.adaptive_total_bases = @ + read[3]],
                         Tail(sample))

\* a contig that the target sample did not bring is not tracked
RECURSIVE AddControlTracked(_, _)
AddControlTracked(st, sample) ==
    IF sample = <<>> THEN st
    ELSE LET read == Head(sample)
         IN  AddControlTracked(
                 IF read[1] \in DOMAIN st.adaptive_num_bases
                 THEN [st EXCEPT !.control_num_bases[read[1]] = @ + read[2],
                                 !.control_total_bases = @ + read[3]]
                 ELSE [st EXCEPT !.control_total_bases = @ + read[3]],
                 Tail(sample))

\* lines 344-350
RECURSIVE AddControl(_, _)
AddControl(st, sample) ==
    IF sample = <<>> THEN st
    ELSE LET read == Head(sample)
             ensured == EnsureAlign(st, read[1])
         IN  AddControl([ensured EXCEPT
                            !.control_num_bases[read[1]] = @ + read[2],
                            !.control_total_bases = @ + read[3]],
                        Tail(sample))

\* lines 358-361: the sums after the loop of lines 353-369 has replaced the
\* zero denominators
Floored(st) ==
    [st EXCEPT
        !.control_num_bases =
            [align \in DOMAIN @ |-> IF @[align] = 0 THEN 1 ELSE @[align]],
        !.control_total_bases =
            IF DOMAIN st.adaptive_num_bases # {} /\ @ = 0 THEN 1 ELSE @]

\* the ratio of the base counts, without the depth of the two samples
EnrichmentNoDepth(st, align) ==
    IF st.adaptive_total_bases = 0 THEN Zero
    ELSE FracDiv(Frac(st.adaptive_num_bases[align], 1),
                 Frac(st.control_num_bases[align], 1))

\* lines 363-369: the value appended for align, from the floored sums
Enrichment(st, align) ==
    IF st.adaptive_total_bases = 0 THEN Zero
    ELSE FracDiv(Frac(st.adaptive_num_bases[align], st.adaptive_total_bases),
                 Frac(st.control_num_bases[align], st.control_total_bases))

\* lines 353-369: one value appended per key of adaptive_num_bases; the
\* passes of the loop touch different keys, so their order does not matter
Emit(dist, st) ==
    [align \in DOMAIN dist \cup DOMAIN st.adaptive_num_bases |->
        IF align \in DOMAIN st.adaptive_num_bases
        THEN Append(IF align \in DOMAIN dist THEN dist[align] ELSE <<>>,
                    Enrichment(st, align))
        ELSE dist[align]]

\* barcodes whose bootstrap has started
Started == Cardinality(DOMAIN bootstrapped_enrichment)

\* lines 319-323: the bootstrap turns to the next barcode of read_lens
BootstrapBarcode ==
    /\ pc = "bootstrap"
    /\ Started < Len(barcode_list)
    /\ Started = 0 \/ i = bootstrap_sample
    /\ barcode' = barcode_list[Started + 1]
    /\ bootstrapped_enrichment' =
           Put(bootstrapped_enrichment, barcode_list[Started + 1], EmptyDict)
    /\ i' = 0
    /\ UNCHANGED <<pc, error, optionVars, barcode_list, results_dict,
                   read_lens, ref_order, entry, cls, adaptive_sample,
                   control_sample, adaptive_num_bases, control_num_bases,
                   adaptive_total_bases, control_total_bases, sumVars>>

\* lines 326-369: one bootstrap iteration for the current barcode
BootstrapIteration ==
    /\ pc = "bootstrap"
    /\ Started > 0
    /\ i < bootstrap_sample
    /\ \E a \in Choices(read_lens[barcode].adaptive),
          c \in Choices(read_lens[barcode].control) :
          LET st == Floored(AddControl(AddAdaptive(NoSums, a), c)) IN
          /\ adaptive_sample' = a
          /\ control_sample' = c
          /\ adaptive_num_bases' = st.adaptive_num_bases
          /\ control_num_bases' = st.control_num_bases
          /\ adaptive_total_bases' = st.adaptive_total_bases
          /\ control_total_bases' = st.control_total_bases
          /\ bootstrapped_enrichment' =
                 [bootstrapped_enrichment EXCEPT ![barcode] = Emit(@, st)]
    /\ i' = i + 1
    /\ UNCHANGED <<pc, error, optionVars, barcode, barcode_list, results_dict,
                   read_lens, ref_order, entry, cls, sumVars>>

\* lines 371-376: every barcode is done and the bootstrap file is written
WriteBootstrap ==
    /\ pc = "bootstrap"
    /\ Started = Len(barcode_list)
    /\ Started = 0 \/ i = bootstrap_sample
    /\ pc' = "summary"
    /\ UNCHANGED <<error, optionVars, barcode, barcode_list, results_dict,
                   read_lens, ref_order, entry, cls, bootVars, sumVars>>

(***************************************************************************)
(* The summary, lines 378-464.                                              *)
(***************************************************************************)
\* a row of the summary file: Statistic, Channel, Barcode, Alignment, Value
Row(statistic, channel, b, align, value) ==
    <<statistic, channel, b, align, value>>

\* lines 397-398, one pair of rows per bucket
RECURSIVE TargetRows(_, _, _)
TargetRows(b, ref_dict, refs) ==
    IF refs = <<>> THEN <<>>
    ELSE LET ref == Head(refs)
             item == ref_dict[ref]
         IN  <<Row("Reads_mapped", "Target", b, ref, item.target_channel_reads),
               Row("Bases_mapped", "Target", b, ref, item.target_channel_bases)>>
             \o TargetRows(b, ref_dict, Tail(refs))

\* lines 400-403
TargetProp(counters, item) ==
    IF counters.target_channel_bases = 0 THEN Zero
    ELSE Frac(item.target_channel_bases, counters.target_channel_bases)

\* lines 415-418
TargetTotals(b, counters) ==
    <<Row("Reads_total", "Target", b, "Total", counters.target_channel_reads),
      Row("Reads_mapped", "Target", b, "Total", counters.target_channel_reads_mapped),
      Row("Bases_total", "Target", b, "Total", counters.target_channel_bases),
      Row("Bases_mapped", "Target", b, "Total", counters.target_channel_bases_mapped)>>

\* lines 432-433
RECURSIVE NonTargetRows(_, _, _)
NonTargetRows(b, ref_dict, refs) ==
    IF refs = <<>> THEN <<>>
    ELSE LET ref == Head(refs)
             item == ref_dict[ref]
         IN  <<Row("Reads_mapped", "Non-target", b, ref, item.non_target_channel_reads),
               Row("Bases_mapped", "Non-target", b, ref, item.non_target_channel_bases)>>
             \o NonTargetRows(b, ref_dict, Tail(refs))

\* lines 434-436: the non-target bases join the terms of each bucket
WithNonTarget(terms, ref_dict) ==
    [ref \in DOMAIN terms \cup DOMAIN ref_dict |->
        IF ref \in DOMAIN ref_dict
        THEN Put(IF ref \in DOMAIN terms THEN terms[ref] ELSE EmptyDict,
                 "Nontarget_bases_mapped", ref_dict[ref].non_target_channel_bases)
        ELSE terms[ref]]

\* line 449
HasBothTerms(term) ==
    "Nontarget_bases_mapped" \in DOMAIN term /\ "Target_prop_bases" \in DOMAIN term

\* lines 450-451
FlooredTerms(terms) ==
    [ref \in DOMAIN terms |->
        IF HasBothTerms(terms[ref]) /\ terms[ref]["Nontarget_bases_mapped"] = 0
        THEN [terms[ref] EXCEPT !["Nontarget_bases_mapped"] = 1]
        ELSE terms[ref]]

\* lines 452-453: the stored counter itself is overwritten
FlooredCounters(counters, terms) ==
    IF (\E ref \in DOMAIN terms : HasBothTerms(terms[ref]))
       /\ counters.non_target_channel_bases = 0
    THEN [counters EXCEPT !.non_target_channel_bases = 1]
    ELSE counters

\* lines 455-458, from the floored terms and counters
RECURSIVE EnrichmentRows(_, _, _, _)
EnrichmentRows(b, terms, counters, refs) ==
    IF refs = <<>> THEN <<>>
    ELSE LET ref == Head(refs)
             non_target_prop_bases ==
                 Frac(terms[ref]["Nontarget_bases_mapped"],
                      counters.non_target_channel_bases)
             enrichment ==
                 FracDiv(terms[ref]["Target_prop_bases"], non_target_prop_bases)
         IN  (IF HasBothTerms(terms[ref])
              THEN <<Row("Enrichment", "NA", b, ref, enrichment)>>
              ELSE <<>>)
             \o EnrichmentRows(b, terms, counters, Tail(refs))

\* lines 461-464
NonTargetTotals(b, counters) ==
    <<Row("Reads_total", "Non-target", b, "Total", counters.non_target_channel_reads),
      Row("Reads_mapped", "Non-target", b, "Total", counters.non_target_channel_reads_mapped),
      Row("Bases_total", "Non-target", b, "Total", counters.non_target_channel_bases),
      Row("Bases_mapped", "Non-target", b, "Total", counters.non_target_channel_bases_mapped)>>

\* barcodes the first loop has passed
TargetDone == Cardinality(DOMAIN enrichment_dict)

\* barcodes the second loop has passed
NonTargetDone ==
    Cardinality({j \in 1..Len(o_sum) :
        o_sum[j][1] = "Reads_total" /\ o_sum[j][2] = "Non-target"})

\* lines 387-418: the target rows of the next barcode
SummaryTarget ==
    /\ pc = "summary"
    /\ TargetDone < Len(barcode_list)
    /\ LET b == barcode_list[TargetDone + 1]
           counters == results_dict[b]
           refs == ref_order[b]
       IN  /\ barcode' = b
           /\ enrichment_dict' =
                  Put(enrichment_dict, b,
                      [ref \in DOMAIN counters.ref_dict |->
                          Put(EmptyDict, "Target_prop_bases",
                              TargetProp(counters, counters.ref_dict[ref]))])
           /\ o_sum' = o_sum \o TargetRows(b, counters.ref_dict, refs)
                             \o TargetTotals(b, counters)
    /\ UNCHANGED <<pc, error, optionVars, barcode_list, results_dict,
                   read_lens, ref_order, entry, cls, bootVars>>

\* lines 423-464: the non-target rows, the point estimates and the totals
\* of the next barcode
SummaryNonTarget ==
    /\ pc = "summary"
    /\ TargetDone = Len(barcode_list)
    /\ NonTargetDone < Len(barcode_list)
    /\ LET b == barcode_list[NonTargetDone + 1]
           counters == results_dict[b]
           refs == ref_order[b]
           joined == WithNonTarget(enrichment_dict[b], counters.ref_dict)
           terms == FlooredTerms(joined)
           floored == FlooredCounters(counters, joined)
       IN  /\ barcode' = b
           /\ enrichment_dict' = [enrichment_dict EXCEPT ![b] = terms]
           /\ results_dict' = [results_dict EXCEPT ![b] = floored]
           /\ o_sum' = o_sum \o NonTargetRows(b, counters.ref_dict, refs)
                             \o EnrichmentRows(b, terms, floored, refs)
                             \o NonTargetTotals(b, floored)
    /\ UNCHANGED <<pc, error, optionVars, barcode_list, read_lens, ref_order,
                   entry,
                   cls, bootVars>>

\* line 464: both loops are over and the summary file is closed
CloseSummary ==
    /\ pc = "summary"
    /\ TargetDone = Len(barcode_list)
    /\ NonTargetDone = Len(barcode_list)
    /\ pc' = "done"
    /\ UNCHANGED <<error, optionVars, barcode, barcode_list, results_dict,
                   read_lens, ref_order, entry, cls, bootVars, sumVars>>

(***************************************************************************)
(* Specifications.                                                          *)
(***************************************************************************)
\* a whole run
Next ==
    \/ ReadFile
    \/ IngestRead
    \/ EndOfInput
    \/ BootstrapBarcode
    \/ BootstrapIteration
    \/ WriteBootstrap
    \/ SummaryTarget
    \/ SummaryNonTarget
    \/ CloseSummary

Spec == Init /\ [][Next]_vars

\* the classification of the first read of a run, over all hit sequences
NextSelect ==
    \/ ReadFile
    \/ SelectRead

SpecSelect == InitSelect /\ [][NextSelect]_vars

(***************************************************************************)
(* Properties.                                                              *)
(***************************************************************************)
\* cls holds the classification of entry: the last read went through
Processed == pc # "failed" /\ ReadsIngested > 0

Range(seq) == {seq[j] : j \in 1..Len(seq)}

Last(seq) == seq[Len(seq)]

\* C1: while reads are ingested and until the summary is written, every
\* barcode's total_reads is the sum of its target and non-target reads and
\* its total_bases the sum of its target and non-target bases.
Additivity ==
    pc \in {"ingest", "bootstrap", "failed"} =>
        \A b \in DOMAIN results_dict :
            LET r == results_dict[b] IN
            /\ r.total_reads = r.target_channel_reads + r.non_target_channel_reads
            /\ r.total_bases = r.target_channel_bases + r.non_target_channel_bases

\* a barcode with a mapped target read and an unaligned non-target read
AdditivityWitness ==
    /\ pc = "ingest"
    /\ \E b \in DOMAIN results_dict :
          /\ results_dict[b].target_channel_reads_mapped = 1
          /\ results_dict[b].non_target_channel_reads = 1
          /\ results_dict[b].non_target_channel_reads_mapped = 0
          /\ results_dict[b].total_bases = 12

\* the reads of barcode b that went through the update step, as retained
Observations(b) ==
    [j \in 1..Len(read_lens[b].adaptive) |->
        [target |-> TRUE, ref_align |-> read_lens[b].adaptive[j][1],
         match_len |-> read_lens[b].adaptive[j][2],
         total_length |-> read_lens[b].adaptive[j][3]]]
    \o
    [j \in 1..Len(read_lens[b].control) |->
        [target |-> FALSE, ref_align |-> read_lens[b].control[j][1],
         match_len |-> read_lens[b].control[j][2],
         total_length |-> read_lens[b].control[j][3]]]

Orders(n) ==
    {p \in [1..n -> 1..n] : \A j, k \in 1..n : p[j] = p[k] => j = k}

RECURSIVE Replay(_, _)
Replay(counters, obs) ==
    IF obs = <<>> THEN counters
    ELSE Replay(Update(counters, Head(obs)), Tail(obs))

\* C2: the counters of a barcode are what the update step yields from zero
\* counters for every permutation of the reads of that barcode, so the
\* order in which the reads arrived does not show in them.
OrderIndependent ==
    pc \in {"ingest", "bootstrap", "failed"} =>
        \A b \in DOMAIN results_dict :
            LET obs == Observations(b) IN
            \A p \in Orders(Len(obs)) :
                Replay(NewCounters, [j \in 1..Len(obs) |-> obs[p[j]]])
                    = results_dict[b]

\* a barcode with a target and a non-target read in the same bucket
OrderIndependentWitness ==
    \E b \in DOMAIN results_dict :
        \E ref \in DOMAIN results_dict[b].ref_dict :
            /\ results_dict[b].ref_dict[ref].target_channel_reads = 1
            /\ results_dict[b].ref_dict[ref].non_target_channel_reads = 1

\* C3: a read classified "unaligned" contributes its whole length as
\* matched bases, and a read without hits is "unaligned" with coverage 0.
UnalignedFullLength ==
    Processed =>
        /\ cls.ref_align = "unaligned" => cls.match_len = entry.seq_len
        /\ entry.hits = <<>> =>
              /\ cls.ref_align = "unaligned"
              /\ cls.match_len = entry.seq_len
              /\ cls.perc_id = Zero
        /\ \A b \in DOMAIN read_lens :
              \A t \in Range(read_lens[b].adaptive) \cup Range(read_lens[b].control) :
                  t[1] = "unaligned" => t[2] = t[3]

\* a read whose best hit is below the cutoff: it had 2 matched bases and is
\* retained as unaligned with its 6 bases
UnalignedFullLengthWitness ==
    /\ Processed
    /\ Len(entry.hits) = 1
    /\ entry.hits[1].mlen = 2
    /\ matching_prop = Frac(4, 5)
    /\ cls.ref_align = "unaligned"
    /\ cls.perc_id = Frac(2, 5)
    /\ cls.match_len = 6

\* C4: a read whose channel is outside 1..512 ends the run with the
\* assertion error; it is not classified and changes neither the counters
\* nor the retained lists.
InvalidChannelFails ==
    [][(\E e \in RunEntries : e.channel \notin 1..512 /\ ProcessRead(e)) =>
          /\ pc' = "failed"
          /\ error' = "AssertionError"
          /\ cls' = cls
          /\ results_dict' = results_dict
          /\ read_lens' = read_lens]_vars

\* the last bootstrap iteration was one of the current barcode
Iterated == pc = "bootstrap" /\ i > 0

Max(a, b) == IF a >= b THEN a ELSE b

ContigsOf(sample) == {t[1] : t \in Range(sample)}

RECURSIVE MatchedOf(_, _)
MatchedOf(sample, contig) ==
    IF sample = <<>> THEN 0
    ELSE (IF Head(sample)[1] = contig THEN Head(sample)[2] ELSE 0)
         + MatchedOf(Tail(sample), contig)

RECURSIVE LengthOf(_)
LengthOf(sample) ==
    IF sample = <<>> THEN 0 ELSE Head(sample)[3] + LengthOf(Tail(sample))

\* the enrichment of a contig as the specification words it
Expected(target_sample, ctrl_sample, contig) ==
    IF LengthOf(target_sample) = 0 THEN Zero
    ELSE FracDiv(Frac(MatchedOf(target_sample, contig), LengthOf(target_sample)),
                 Frac(Max(1, MatchedOf(ctrl_sample, contig)),
                      Max(1, LengthOf(ctrl_sample))))

\* the value one iteration appends for a contig, given what it draws
Appended(target_sample, ctrl_sample, contig) ==
    Enrichment(Floored(AddControl(AddAdaptive(NoSums, target_sample),
                                  ctrl_sample)), contig)

\* C5: the value an iteration appends for each contig it collected is 0
\* when the target sample has no bases and otherwise the contig's share of
\* the target sample divided by its share of the control sample, both
\* control quantities raised to at least 1; target [("X",80,100)] against
\* control [("X",10,100)] gives exactly 8.
EnrichmentFormula ==
    /\ Iterated =>
          \A align \in DOMAIN adaptive_num_bases :
              Last(bootstrapped_enrichment[barcode][align])
                  = Expected(adaptive_sample, control_sample, align)
    /\ Appended(<<<<"X", 80, 100>>>>, <<<<"X", 10, 100>>>>, "X") = Frac(8, 1)

\* an iteration that draws a mapped target read and an unaligned control
\* read: the contig has 4 of 6 target bases and, floored, 1 of 6 control
\* bases
EnrichmentFormulaWitness ==
    /\ Iterated
    /\ adaptive_sample # <<>>
    /\ control_sample # <<>>
    /\ \E align \in DOMAIN adaptive_num_bases :
          /\ control_num_bases[align] = 1
          /\ Last(bootstrapped_enrichment[barcode][align]) = Frac(4, 1)

\* the groups of the barcode whose bootstrap is running
TargetGroup == read_lens[barcode].adaptive
ControlGroup == read_lens[barcode].control

\* C6 as stated: with an empty target group or an empty control group every
\* value of the barcode's distribution is 0.
EmptyGroupGivesZero ==
    Iterated /\ (TargetGroup = <<>> \/ ControlGroup = <<>>) =>
        \A align \in DOMAIN bootstrapped_enrichment[barcode] :
            \A v \in Range(bootstrapped_enrichment[barcode][align]) : v = Zero

\* C6 amended: the sampler has a draw for every group, also an empty one;
\* with an empty target group every value is 0; with only the control
\* group empty the value of a contig is its share of the target sample
\* (the control quantities are floored to 1), which is 0 only if the target
\* sample has no matched bases of the contig.
EmptyGroupFloored ==
    /\ pc = "bootstrap" /\ Started > 0 =>
          Choices(TargetGroup) # {} /\ Choices(ControlGroup) # {}
    /\ Iterated /\ TargetGroup = <<>> =>
          \A align \in DOMAIN bootstrapped_enrichment[barcode] :
              \A v \in Range(bootstrapped_enrichment[barcode][align]) : v = Zero
    /\ Iterated /\ ControlGroup = <<>> /\ TargetGroup # <<>> =>
          \A align \in DOMAIN adaptive_num_bases :
              Last(bootstrapped_enrichment[barcode][align]) =
                  IF LengthOf(adaptive_sample) = 0 THEN Zero
                  ELSE Frac(MatchedOf(adaptive_sample, align),
                            LengthOf(adaptive_sample))

\* a barcode with one mapped target read and no control read: the value of
\* its contig is 4/6
EmptyGroupFlooredWitness ==
    /\ Iterated
    /\ ControlGroup = <<>>
    /\ Len(TargetGroup) = 1
    /\ \E align \in DOMAIN adaptive_num_bases :
          Last(bootstrapped_enrichment[barcode][align]) = Frac(2, 3)

\* C7: once the bootstrap is over, every contig of every barcode's
\* distribution has exactly bootstrap_sample values.
OneValuePerIteration ==
    pc \notin {"ingest", "bootstrap", "failed"} =>
        \A b \in DOMAIN bootstrapped_enrichment :
            \A align \in DOMAIN bootstrapped_enrichment[b] :
                Len(bootstrapped_enrichment[b][align]) = bootstrap_sample

\* the hits of a read that pass the -t filter
InSet(hits) == SelectSeq(hits, LAMBDA r : r.ctg \in mm_target[1])

\* C8 as stated: under -t and -r, a read with exactly one hit in the set,
\* whose coverage reaches the cutoff, is not rejected as multi-mapping,
\* however many hits outside the set it has.
OutOfSetHitsNotCounted ==
    Processed /\ mm_target # None /\ remove_multi
        /\ Len(InSet(entry.hits)) = 1
        /\ ~FracLess(cls.perc_id, matching_prop)
    => cls.ref_align = InSet(entry.hits)[1].ctg

\* C8 amended: under -t the hits outside the set are never selected, but
\* they count as alignments: with -r a read with more than one hit, in the
\* set or not, is unaligned.
OutOfSetHitsCounted ==
    Processed /\ mm_target # None =>
        /\ cls.ref_align \in mm_target[1] \cup {"unaligned"}
        /\ cls.align_count = Len(entry.hits)
        /\ remove_multi /\ Len(entry.hits) > 1 => cls.ref_align = "unaligned"

\* a read with one hit in the set that reaches the cutoff and one hit
\* outside the set, rejected as multi-mapping
OutOfSetHitsCountedWitness ==
    /\ Processed /\ mm_target # None /\ remove_multi
    /\ Len(entry.hits) = 2
    /\ Len(InSet(entry.hits)) = 1
    /\ cls.perc_id = Frac(4, 5)
    /\ cls.ref_align = "unaligned"
    /\ cls.match_len = 6

\* C9: a hit of empty reference interval never makes the selection raise.
ZeroSpanNeverRaises ==
    (\E r \in Range(entry.hits) : r.r_en = r.r_st) =>
        error # "ZeroDivisionError"

\* C10 as stated: the contigs an iteration tracks all appear in the drawn
\* target sample.
OnlyTargetContigsTracked ==
    Iterated =>
        /\ DOMAIN adaptive_num_bases \subseteq ContigsOf(adaptive_sample)
        /\ DOMAIN bootstrapped_enrichment[barcode]
               \subseteq ContigsOf(TargetGroup)

\* C10 amended: an iteration tracks the contigs of the drawn target sample
\* and those of the drawn control sample; a contig that only the control
\* sample brings becomes a key of the distribution and receives the value 0.
ControlContigsTracked ==
    Iterated =>
        /\ DOMAIN adaptive_num_bases =
               ContigsOf(adaptive_sample) \cup ContigsOf(control_sample)
        /\ DOMAIN control_num_bases = DOMAIN adaptive_num_bases
        /\ DOMAIN adaptive_num_bases
               \subseteq DOMAIN bootstrapped_enrichment[barcode]
        /\ \A align \in ContigsOf(control_sample) \ ContigsOf(adaptive_sample) :
               Last(bootstrapped_enrichment[barcode][align]) = Zero

\* an iteration whose target sample is a read of one contig and whose
\* control sample a read of another
ControlContigsTrackedWitness ==
    /\ Iterated
    /\ adaptive_sample # <<>>
    /\ \E align \in ContigsOf(control_sample) \ ContigsOf(adaptive_sample) :
          /\ align # "unaligned"
          /\ Last(bootstrapped_enrichment[barcode][align]) = Zero

\* the hits of a read that are examined: all of them, or those of -t
Considered(hits) == IF mm_target = None THEN hits ELSE InSet(hits)

\* the earliest hit with the largest mlen
FirstBest(hits) ==
    hits[CHOOSE k \in 1..Len(hits) :
            /\ \A j \in 1..Len(hits) : hits[j].mlen <= hits[k].mlen
            /\ \A j \in 1..(k - 1) : hits[j].mlen < hits[k].mlen]

\* C13: among the hits examined for a read, the selected hit is the
\* earliest one with the largest mlen (a later hit replaces the best only
\* if its mlen is strictly greater); the coverage is that hit's
\* mlen / |r_en - r_st|, and unless the cutoff or the multi-mapping rule
\* makes the read unaligned, its contig and mlen are the classification.
FirstSeenWins ==
    Processed /\ Considered(entry.hits) # <<>> =>
        LET best == FirstBest(Considered(entry.hits)) IN
        /\ cls.perc_id = Frac(best.mlen, Abs(best.r_en - best.r_st))
        /\ cls.ref_align \in {best.ctg, "unaligned"}
        /\ cls.ref_align # "unaligned" => cls.match_len = best.mlen
        /\ ~FracLess(cls.perc_id, matching_prop)
              /\ ~(remove_multi /\ Len(entry.hits) > 1)
           => cls.ref_align = best.ctg

\* two hits with the same mlen on different contigs: the first is selected
FirstSeenWinsWitness ==
    /\ Processed
    /\ Len(entry.hits) = 2
    /\ entry.hits[1].mlen = entry.hits[2].mlen
    /\ entry.hits[1].ctg # entry.hits[2].ctg
    /\ mm_target = None
    /\ cls.ref_align = entry.hits[1].ctg
    /\ cls.match_len = 4
    /\ cls.perc_id = Frac(4, 5)

\* rows of the summary file that carry a point estimate
EnrichmentLines == {j \in 1..Len(o_sum) : o_sum[j][1] = "Enrichment"}

\* C11: a point-estimate enrichment row is written only for a contig that
\* has a non-target read in its barcode; a contig with target reads only
\* never gets one.
EnrichmentOnlyForNonTarget ==
    \A j \in EnrichmentLines :
        results_dict[o_sum[j][3]].ref_dict[o_sum[j][4]].non_target_channel_reads > 0

\* rows of the summary file that report a barcode's non-target bases
NonTargetBasesLines ==
    {j \in 1..Len(o_sum) :
        /\ o_sum[j][1] = "Bases_total"
        /\ o_sum[j][2] = "Non-target"
        /\ o_sum[j][4] = "Total"}

\* C12: the point estimate leaves the stored counters alone: the non-target
\* bases a barcode reports after it are those the reads accumulated (total
\* minus target, 0 without non-target reads), and total_bases is still the
\* sum of the target and the non-target bases.
SummaryLeavesCounters ==
    \A j \in NonTargetBasesLines :
        LET counters == results_dict[o_sum[j][3]] IN
        /\ o_sum[j][5] = counters.total_bases - counters.target_channel_bases
        /\ counters.non_target_channel_reads = 0 => o_sum[j][5] = 0
        /\ counters.total_bases =
              counters.target_channel_bases + counters.non_target_channel_bases

====
